---- MODULE Spec2Model ----
(***************************************************************************)
(* Inventory movements dashboard: the run of app.py.  The three Excel      *)
(* files are loaded and validated (modules/data_loader.py), the daily      *)
(* balance series is reconstructed (modules/inventory_logic.py,            *)
(* process_movements) and one item's windowed rows are analysed for        *)
(* outliers (outlier_detection.py).                                        *)
(*                                                                         *)
(* A DataFrame is [cols |-> set of column names, rows |-> sequence of      *)
(* records].  A calendar date is the number of days since an origin; the   *)
(* initial-balance date is INITIAL_BALANCE_DATE.  Strings are compared as  *)
(* Python compares them, through their position in StringOrder.            *)
(***************************************************************************)
EXTENDS Integers, Sequences, FiniteSets, TLC

\* ------------------------------------------------------------------ bounds
MaxStockRows == 2
MaxMovRows == 2
DaysBefore == 1
DaysAfter == 2
MaxMissing == 1
MaxWindow == 5

\* --------------------------------------------------------------- constants
INITIAL_BALANCE_DATE == 0
START_PLOT_DATE == INITIAL_BALANCE_DATE + 1

\* The strings of the model, in Python's (code point) order.
StringOrder == <<"", "10", "2", "A", "B", "N/A">>

StrPos(s) == CHOOSE i \in 1..Len(StringOrder) : StringOrder[i] = s
StrLess(a, b) == StrPos(a) < StrPos(b)

ItemIds == {"10", "2"}
Sites == {"A", "B"}
Fechas == (INITIAL_BALANCE_DATE - DaysBefore)..(INITIAL_BALANCE_DATE + DaysAfter)
Quantities == {-30, 0, 10}
WindowQuantities == {-100, -5, -1, 0, 10}
StockLevels == {50, 100}
SafetyLevels == {20}
LeadTimes == {7}

\* ------------------------------------------------------- expected columns
InventoryExpectedCols == {"Item", "CurrentStock", "LeadTime", "StockSeguridad", "Site"}
ConsumptionExpectedCols == {"Item", "Site", "Fecha", "Movimientos"}
CharacteristicsExpectedCols == {"Item", "Site", "Descripcion", "ADI", "CV", "Metodo", "ABC Class"}

\* ---------------------------------------------------------------- helpers
RECURSIVE SumSeq(_)
SumSeq(s) == IF s = <<>> THEN 0 ELSE Head(s) + SumSeq(Tail(s))

RECURSIVE FlattenSeq(_)
FlattenSeq(ss) == IF ss = <<>> THEN <<>> ELSE Head(ss) \o FlattenSeq(Tail(ss))

MaxOf(S) == CHOOSE m \in S : \A x \in S : x <= m

\* Series.unique(): the values in order of first appearance.
RECURSIVE Unique(_)
Unique(s) ==
    IF s = <<>> THEN <<>>
    ELSE LET front == Unique(SubSeq(s, 1, Len(s) - 1))
             last == s[Len(s)]
         IN IF \E i \in 1..Len(front) : front[i] = last THEN front
            ELSE Append(front, last)

\* Stable sort of rows, given less[i][j] = "row i sorts strictly before row
\* j": a row's place is the number of rows that are smaller, or equivalent
\* and earlier.
SortRows(rows, less) ==
    LET n == Len(rows)
        place == [i \in 1..n |-> 1 + Cardinality({j \in 1..n :
                        \/ less[j][i]
                        \/ (~less[i][j] /\ j < i)})]
    IN [k \in 1..n |-> rows[CHOOSE i \in 1..n : place[i] = k]]

\* The sequences over S of length at most n.
SeqsUpTo(S, n) == UNION {[1..k -> S] : k \in 0..n}

\* ----------------------------------------------------------------- files
StockRows == [Item : ItemIds, CurrentStock : StockLevels, LeadTime : LeadTimes,
              StockSeguridad : SafetyLevels, Site : {"A"}]
MovRows == [Item : ItemIds, Site : Sites, Fecha : Fechas, Movimientos : Quantities]

NoFrame == [cols |-> {}, rows |-> <<>>]

VARIABLES
    inventario_xlsx,        \* the stock workbook
    consumos_xlsx,          \* the movement workbook
    caracteristicas_xlsx,   \* the characteristics workbook
    df_inventario,          \* app.py: loaded stock table
    df_movimientos,         \* app.py: loaded movement table
    df_caracteristicas,     \* app.py: loaded characteristics table
    df_processed,           \* app.py: result of process_movements
    df_processed_again,     \* result of a second call on the same tables
    selected_item,          \* app.py: the item picked in the select box
    df_display,             \* app.py: the item's rows from START_PLOT_DATE on
    analysis,               \* result of calculate_outliers_and_mean_without_outliers
    df_outliers_superiores_salidas, \* display_outliers_table: the rows reported
    pc,                     \* position of the script
    error                   \* the error shown to the user, or NoError

vars == <<inventario_xlsx, consumos_xlsx, caracteristicas_xlsx, df_inventario,
          df_movimientos, df_caracteristicas, df_processed, df_processed_again,
          selected_item, df_display, analysis, df_outliers_superiores_salidas, pc, error>>

NoError == [kind |-> "none", table |-> "", missing |-> {}]

\* ------------------------------------------------- modules/data_loader.py
\* Mutant of MissingCols: only the Item column is looked for.
MissingColsItemOnly(expected, found) == {col \in expected \cap {"Item"} : col \notin found}

\* missing_cols of the loaders: the expected columns the workbook lacks.
MissingCols(expected, found) == {col \in expected : col \notin found}

\* A cell that is neither a number nor a date: errors='coerce' turns it into
\* NaN / NaT.
BadCell == -999

\* The columns each loader passes through pd.to_numeric.
NumericCols(table) ==
    IF table = "inventario.xlsx" THEN {"CurrentStock", "LeadTime", "StockSeguridad"}
    ELSE IF table = "consumos.xlsx" THEN {"Movimientos"}
    ELSE {"ADI", "CV"}

\* Mutant of ToNumeric: the cell is kept as it is.
ToNumericKeep(x) == x

\* pd.to_numeric(column, errors='coerce').fillna(0) on one cell.
ToNumeric(x) == IF x = BadCell THEN 0 ELSE x

\* The loaders' coercions: numeric columns through ToNumeric, and in the
\* movement table dropna(subset=['Fecha']) after to_datetime(errors='coerce').
Coerced(file, table) ==
    LET numeric == [i \in 1..Len(file.rows) |->
                      [c \in DOMAIN file.rows[i] |->
                          IF c \in NumericCols(table) THEN ToNumeric(file.rows[i][c])
                          ELSE file.rows[i][c]]]
    IN [cols |-> file.cols,
        rows |-> IF table = "consumos.xlsx"
                 THEN SelectSeq(numeric, LAMBDA r : r.Fecha # BadCell)
                 ELSE numeric]

\* A loader on a workbook: the format error (raised, caught in the loader,
\* shown with st.error, then st.stop()) or the table with its cells coerced.
LoadTable(file, table, expected) ==
    IF MissingCols(expected, file.cols) # {}
    THEN [ok |-> FALSE, df |-> NoFrame,
          error |-> [kind |-> "ValueError", table |-> table,
                     missing |-> MissingCols(expected, file.cols)]]
    ELSE [ok |-> TRUE, df |-> Coerced(file, table), error |-> NoError]

\* --------------------------------------------- modules/inventory_logic.py
\* df_inventario['Site'] = 'N/A_Inventario' when the column is absent.
WithSite(inv) ==
    IF "Site" \in inv.cols THEN inv
    ELSE [cols |-> inv.cols \cup {"Site"},
          rows |-> [i \in 1..Len(inv.rows) |-> ("Site" :> "N/A_Inventario") @@ inv.rows[i]]]

\* Mutant of WithInitialBalance: the sum is also written back to CurrentStock.
WithInitialBalanceIntoStock(inv) ==
    [cols |-> inv.cols \cup {"InitialBalance"},
     rows |-> [i \in 1..Len(inv.rows) |->
                 ("InitialBalance" :> (inv.rows[i].CurrentStock + inv.rows[i].StockSeguridad)) @@
                 ("CurrentStock" :> (inv.rows[i].CurrentStock + inv.rows[i].StockSeguridad)) @@
                 inv.rows[i]]]

\* df_inventario['InitialBalance'] = CurrentStock + StockSeguridad, in place.
WithInitialBalance(inv) ==
    [cols |-> inv.cols \cup {"InitialBalance"},
     rows |-> [i \in 1..Len(inv.rows) |->
                 ("InitialBalance" :> (inv.rows[i].CurrentStock + inv.rows[i].StockSeguridad))
                     @@ inv.rows[i]]]

\* Mutant of DuplicateItems: rows are compared whole (no subset=['Item']).
DuplicateRows(inv) ==
    SelectSeq(inv.rows, LAMBDA r :
        Cardinality({i \in 1..Len(inv.rows) : inv.rows[i] = r}) > 1)

\* df_inventario.duplicated(subset=['Item'], keep=False): every row whose
\* Item occurs in another row too.
DuplicateItems(inv) ==
    SelectSeq(inv.rows, LAMBDA r :
        Cardinality({i \in 1..Len(inv.rows) : inv.rows[i].Item = r.Item}) > 1)

\* set_index('Item')[column].to_dict(), read with .get(item, default); a
\* repeated key keeps its last row.
MapGet(inv, column, item, default) ==
    LET hits == {i \in 1..Len(inv.rows) : inv.rows[i].Item = item}
    IN IF hits = {} THEN default ELSE inv.rows[MaxOf(hits)][column]

\* Mutant of WithEntradasSalidas: Salidas holds the size of the outflow.
WithEntradasSalidasUnsigned(mov) ==
    [cols |-> mov.cols \cup {"Entradas", "Salidas"},
     rows |-> [i \in 1..Len(mov.rows) |->
                 LET x == mov.rows[i].Movimientos
                 IN ("Entradas" :> (IF x > 0 THEN x ELSE 0)) @@
                    ("Salidas" :> (IF x < 0 THEN -x ELSE 0)) @@ mov.rows[i]]]

\* df_movimientos['Entradas'] / ['Salidas'], in place.
WithEntradasSalidas(mov) ==
    [cols |-> mov.cols \cup {"Entradas", "Salidas"},
     rows |-> [i \in 1..Len(mov.rows) |->
                 LET x == mov.rows[i].Movimientos
                 IN ("Entradas" :> (IF x > 0 THEN x ELSE 0)) @@
                    ("Salidas" :> (IF x < 0 THEN x ELSE 0)) @@ mov.rows[i]]]

\* all_items: the unique items of both tables, stock first, without ''.
AllItems(inv, mov) ==
    LET items_from_inventario == Unique([i \in 1..Len(inv.rows) |-> inv.rows[i].Item])
        items_from_movimientos == Unique([i \in 1..Len(mov.rows) |-> mov.rows[i].Item])
    IN SelectSeq(Unique(items_from_inventario \o items_from_movimientos),
                 LAMBDA item : item # "")

\* df_movimientos[df_movimientos['Item'] == item].copy(), with the Site
\* column defaulted when the table has none.
ItemMovements(mov, item, default_site) ==
    LET sel == SelectSeq(mov.rows, LAMBDA r : r.Item = item)
    IN IF "Site" \in mov.cols THEN sel
       ELSE [i \in 1..Len(sel) |-> ("Site" :> default_site) @@ sel[i]]

\* pd.date_range(start, end, freq='D'): every day from start to end, none
\* when end is before start.
EndDateForItem(item_movements, initial_balance_date) ==
    IF item_movements # <<>>
    THEN MaxOf({item_movements[i].Fecha : i \in 1..Len(item_movements)})
    ELSE initial_balance_date

\* Mutant of FullDateRange: the end date is left out.
FullDateRangeOpen(item_movements, initial_balance_date) ==
    LET end == EndDateForItem(item_movements, initial_balance_date)
    IN [k \in 1..(end - initial_balance_date) |-> initial_balance_date + k - 1]

FullDateRange(item_movements, initial_balance_date) ==
    LET end == EndDateForItem(item_movements, initial_balance_date)
    IN [k \in 1..(end - initial_balance_date + 1) |-> initial_balance_date + k - 1]

\* groupby(['Fecha', 'Site', 'Item']).agg(sum).reset_index(): one row per
\* (Fecha, Site) of the item, keys ascending.
KeyLess(a, b) ==
    \/ a.Fecha < b.Fecha
    \/ (a.Fecha = b.Fecha /\ StrLess(a.Site, b.Site))

DailyMovementsAgg(item_movements, item) ==
    LET keys == Unique([i \in 1..Len(item_movements) |->
                          [Fecha |-> item_movements[i].Fecha, Site |-> item_movements[i].Site]])
        group(k) == SelectSeq(item_movements, LAMBDA r : r.Fecha = k.Fecha /\ r.Site = k.Site)
        total(k, column) == SumSeq([i \in 1..Len(group(k)) |-> group(k)[i][column]])
        rows == [j \in 1..Len(keys) |->
                   [Fecha |-> keys[j].Fecha, Site |-> keys[j].Site, Item |-> item,
                    Movimientos |-> total(keys[j], "Movimientos"),
                    Entradas |-> total(keys[j], "Entradas"),
                    Salidas |-> total(keys[j], "Salidas")]]
    IN SortRows(rows, [i \in 1..Len(rows) |-> [j \in 1..Len(rows) |-> KeyLess(rows[i], rows[j])]])

\* pd.merge(df_item_daily, daily_movements_agg, on=['Fecha', 'Item'],
\* how='left') followed by the two fillna: every day of the range keeps its
\* aggregated rows, or gets one zero row at the default site.
MergeLeft(full_date_range, item, daily_movements_agg, default_site) ==
    FlattenSeq([k \in 1..Len(full_date_range) |->
        LET matches == SelectSeq(daily_movements_agg,
                                 LAMBDA a : a.Fecha = full_date_range[k] /\ a.Item = item)
        IN IF matches = <<>>
           THEN <<[Fecha |-> full_date_range[k], Item |-> item, Site |-> default_site,
                   Movimientos |-> 0, Entradas |-> 0, Salidas |-> 0]>>
           ELSE matches])

FechaLess(a, b) == a.Fecha < b.Fecha

\* groupby('Fecha')['Movimientos'].transform('sum') at row i.
DailyTotalMovimientosForSaldo(rows, i) ==
    LET same == SelectSeq(rows, LAMBDA r : r.Fecha = rows[i].Fecha)
    IN SumSeq([j \in 1..Len(same) |-> same[j].Movimientos])

\* temp_saldo: anchored at the first row of the initial-balance date, then
\* row by row forwards and backwards.
RECURSIVE TempSaldo(_, _, _, _)
TempSaldo(rows, initial_idx, initial_bal, i) ==
    IF i = initial_idx THEN initial_bal
    ELSE IF i > initial_idx
         THEN TempSaldo(rows, initial_idx, initial_bal, i - 1)
                  + DailyTotalMovimientosForSaldo(rows, i)
         ELSE TempSaldo(rows, initial_idx, initial_bal, i + 1)
                  - DailyTotalMovimientosForSaldo(rows, i + 1)

RECURSIVE CumSum(_, _)
CumSum(rows, i) ==
    IF i = 0 THEN 0 ELSE CumSum(rows, i - 1) + DailyTotalMovimientosForSaldo(rows, i)

WithSaldo(rows, initial_bal, initial_balance_date) ==
    LET initial_idx == {i \in 1..Len(rows) : rows[i].Fecha = initial_balance_date}
    IN [i \in 1..Len(rows) |->
          ("Saldo" :> (IF initial_idx # {}
                       THEN TempSaldo(rows, CHOOSE m \in initial_idx :
                                               \A x \in initial_idx : m <= x,
                                      initial_bal, i)
                       ELSE initial_bal + CumSum(rows, i))) @@ rows[i]]

\* The body of the loop over all_items: df_item_combined of one item.
ItemCombined(inv, mov, item, initial_balance_date) ==
    LET initial_bal == MapGet(inv, "InitialBalance", item, 0)
        default_site == MapGet(inv, "Site", item, "N/A")
        item_movements == ItemMovements(mov, item, default_site)
        full_date_range == FullDateRange(item_movements, initial_balance_date)
        daily_movements_agg == DailyMovementsAgg(item_movements, item)
        merged == MergeLeft(full_date_range, item, daily_movements_agg, default_site)
        by_fecha == [i \in 1..Len(merged) |->
                       [j \in 1..Len(merged) |-> FechaLess(merged[i], merged[j])]]
    IN WithSaldo(SortRows(merged, by_fecha), initial_bal, initial_balance_date)

ItemFechaLess(a, b) ==
    \/ StrLess(a.Item, b.Item)
    \/ (a.Item = b.Item /\ a.Fecha < b.Fecha)

\* Mutant of SortValues: the concatenated frames are returned as they are.
SortValuesOmitted(rows) == rows

\* df_processed.sort_values(by=['Item', 'Fecha']).reset_index(drop=True)
SortValues(rows) ==
    SortRows(rows, [i \in 1..Len(rows) |-> [j \in 1..Len(rows) |-> ItemFechaLess(rows[i], rows[j])]])

ProcessedCols == {"Item", "Fecha", "Movimientos", "Entradas", "Salidas", "Site", "Saldo"}

KeyError(table, column) == [kind |-> "KeyError", table |-> table, missing |-> {column}]

\* Mutant of ProcessMovements: the items of the characteristics table are
\* processed too.
ProcessMovementsAllFiles(inv, mov, car, initial_balance_date) ==
    IF "Item" \notin inv.cols
    THEN [inv |-> inv, mov |-> mov, df |-> NoFrame,
          error |-> [kind |-> "ValueError", table |-> "df_inventario", missing |-> {"Item"}]]
    ELSE IF "Item" \notin mov.cols
    THEN [inv |-> inv, mov |-> mov, df |-> NoFrame,
          error |-> [kind |-> "ValueError", table |-> "df_movimientos", missing |-> {"Item"}]]
    ELSE IF {"CurrentStock", "StockSeguridad"} \ inv.cols # {}
    THEN [inv |-> WithSite(inv), mov |-> mov, df |-> NoFrame,
          error |-> KeyError("df_inventario",
                             IF "CurrentStock" \notin inv.cols THEN "CurrentStock"
                             ELSE "StockSeguridad")]
    ELSE LET inv1 == WithInitialBalance(WithSite(inv))
         IN IF inv1.rows # <<>> /\ DuplicateItems(inv1) # <<>>
            THEN [inv |-> inv1, mov |-> mov, df |-> NoFrame,
                  error |-> [kind |-> "ValueError", table |-> "df_inventario",
                             missing |-> {}]]
            ELSE IF {"Fecha", "Movimientos"} \ mov.cols # {}
            THEN [inv |-> inv1, mov |-> mov, df |-> NoFrame,
                  error |-> KeyError("df_movimientos",
                                     IF "Fecha" \notin mov.cols THEN "Fecha"
                                     ELSE "Movimientos")]
            ELSE LET mov1 == WithEntradasSalidas(mov)
                     all_items == Unique(AllItems(inv1, mov1) \o
                                         [i \in 1..Len(car.rows) |-> car.rows[i].Item])
                     df_processed_list ==
                         [n \in 1..Len(all_items) |->
                            ItemCombined(inv1, mov1, all_items[n], initial_balance_date)]
                 IN [inv |-> inv1, mov |-> mov1,
                     df |-> [cols |-> ProcessedCols,
                             rows |-> SortValues(FlattenSeq(df_processed_list))],
                     error |-> NoError]

\* process_movements(df_inventario, df_movimientos, df_caracteristicas,
\* initial_balance_date): the tables as the call leaves them (both are
\* modified in place), the returned frame, and the exception raised if any.
ProcessMovements(inv, mov, car, initial_balance_date) ==
    IF "Item" \notin inv.cols
    THEN [inv |-> inv, mov |-> mov, df |-> NoFrame,
          error |-> [kind |-> "ValueError", table |-> "df_inventario", missing |-> {"Item"}]]
    ELSE IF "Item" \notin mov.cols
    THEN [inv |-> inv, mov |-> mov, df |-> NoFrame,
          error |-> [kind |-> "ValueError", table |-> "df_movimientos", missing |-> {"Item"}]]
    ELSE IF {"CurrentStock", "StockSeguridad"} \ inv.cols # {}
    THEN [inv |-> WithSite(inv), mov |-> mov, df |-> NoFrame,
          error |-> KeyError("df_inventario",
                             IF "CurrentStock" \notin inv.cols THEN "CurrentStock"
                             ELSE "StockSeguridad")]
    ELSE LET inv1 == WithInitialBalance(WithSite(inv))
         IN IF inv1.rows # <<>> /\ DuplicateItems(inv1) # <<>>
            THEN [inv |-> inv1, mov |-> mov, df |-> NoFrame,
                  error |-> [kind |-> "ValueError", table |-> "df_inventario",
                             missing |-> {}]]
            ELSE IF {"Fecha", "Movimientos"} \ mov.cols # {}
            THEN [inv |-> inv1, mov |-> mov, df |-> NoFrame,
                  error |-> KeyError("df_movimientos",
                                     IF "Fecha" \notin mov.cols THEN "Fecha"
                                     ELSE "Movimientos")]
            ELSE LET mov1 == WithEntradasSalidas(mov)
                     all_items == AllItems(inv1, mov1)
                     df_processed_list ==
                         [n \in 1..Len(all_items) |->
                            ItemCombined(inv1, mov1, all_items[n], initial_balance_date)]
                 IN [inv |-> inv1, mov |-> mov1,
                     df |-> [cols |-> ProcessedCols,
                             rows |-> SortValues(FlattenSeq(df_processed_list))],
                     error |-> NoError]

\* ---------------------------------------------------- outlier_detection.py
\* Numbers that need not be whole are fractions in lowest terms.
RECURSIVE Gcd(_, _)
Gcd(a, b) == IF b = 0 THEN a ELSE Gcd(b, a % b)

\* Mutant of Abs: the sign is kept.
AbsOmitted(x) == x

\* Series.abs()
Abs(x) == IF x < 0 THEN -x ELSE x

Frac(n, d) ==
    LET g == Gcd(Abs(n), d)
    IN [num |-> n \div g, den |-> d \div g]

\* Mutant of FracLeq: every value passes the comparison.
FracLeqAlways(a, b) == TRUE

FracLeq(a, b) == a.num * b.den <= b.num * a.den

IntLess(a, b) == a < b

\* Mutant of Quantile: the lower of the two closest ranks, not interpolated.
QuantileLowerRank(values, k) ==
    LET sorted == SortRows(values, [i \in 1..Len(values) |->
                                      [j \in 1..Len(values) |-> IntLess(values[i], values[j])]])
    IN Frac(sorted[(((Len(sorted) - 1) * k) \div 4) + 1], 1)

\* Series.quantile(k / 4): linear interpolation between the closest ranks
\* of the sorted values, at position (n - 1) * k / 4.
Quantile(values, k) ==
    LET sorted == SortRows(values, [i \in 1..Len(values) |->
                                      [j \in 1..Len(values) |-> IntLess(values[i], values[j])]])
        n == Len(sorted)
        lo == ((n - 1) * k) \div 4
        rem == ((n - 1) * k) % 4
    IN IF rem = 0 THEN Frac(sorted[lo + 1], 1)
       ELSE Frac(4 * sorted[lo + 1] + rem * (sorted[lo + 2] - sorted[lo + 1]), 4)

NoAnalysis == [upper_bound |-> Frac(0, 1), mean |-> Frac(0, 1), df_salidas |-> NoFrame]

\* Mutant of UpperBoundOutlierAbs: the lower fence, Q1 - 1.5 * IQR.
UpperBoundLowerFence(Q1, Q3) ==
    Frac(5 * Q1.num * Q3.den - 3 * Q3.num * Q1.den, 2 * Q3.den * Q1.den)

\* Mutant of UpperBoundOutlierAbs: the spread is subtracted.
UpperBoundSpreadSubtracted(Q1, Q3) ==
    Frac(3 * Q1.num * Q3.den - Q3.num * Q1.den, 2 * Q3.den * Q1.den)

\* upper_bound_outlier_abs = Q3 + 1.5 * IQR with IQR = Q3 - Q1, that is
\* (5 * Q3 - 3 * Q1) / 2.
UpperBoundOutlierAbs(Q1, Q3) ==
    Frac(5 * Q3.num * Q1.den - 3 * Q1.num * Q3.den, 2 * Q3.den * Q1.den)

\* calculate_outliers_and_mean_without_outliers(df_display_filtered_by_date):
\* (upper_bound_outlier_abs, mean_without_outliers_abs, df_salidas_para_outliers)
CalculateOutliers(df) ==
    LET df_salidas == [cols |-> df.cols,
                       rows |-> SelectSeq(df.rows, LAMBDA r : r.Movimientos < 0)]
        salidas_abs == [i \in 1..Len(df_salidas.rows) |-> Abs(df_salidas.rows[i].Movimientos)]
        nunique == Cardinality({salidas_abs[i] : i \in 1..Len(salidas_abs)})
        Q1 == Quantile(salidas_abs, 1)
        Q3 == Quantile(salidas_abs, 3)
        upper == UpperBoundOutlierAbs(Q1, Q3)
        non_outlier == SelectSeq(salidas_abs, LAMBDA x : FracLeq(Frac(x, 1), upper))
    IN IF df_salidas.rows = <<>>
       THEN [upper_bound |-> Frac(0, 1), mean |-> Frac(0, 1), df_salidas |-> df_salidas]
       ELSE IF nunique > 1
       THEN [upper_bound |-> upper,
             mean |-> IF non_outlier = <<>> THEN Frac(0, 1)
                      ELSE Frac(SumSeq(non_outlier), Len(non_outlier)),
             df_salidas |-> df_salidas]
       ELSE [upper_bound |-> Frac(MaxOf({salidas_abs[i] : i \in 1..Len(salidas_abs)}), 1),
             mean |-> Frac(SumSeq(salidas_abs), Len(salidas_abs)),
             df_salidas |-> df_salidas]

\* Mutant of OutliersSuperioresSalidas: a row at the bound is reported too.
OutliersAtOrAboveBound(df_salidas, upper_bound) ==
    [cols |-> df_salidas.cols,
     rows |-> SelectSeq(df_salidas.rows, LAMBDA r :
                 FracLeq(upper_bound, Frac(Abs(r.Movimientos), 1)))]

\* display_outliers_table: df_outliers_superiores_salidas, the rows of
\* df_salidas_para_outliers with abs(Movimientos) > upper_bound_outlier_abs;
\* nothing is filtered when there is no outflow row.
OutliersSuperioresSalidas(df_salidas, upper_bound) ==
    [cols |-> df_salidas.cols,
     rows |-> SelectSeq(df_salidas.rows, LAMBDA r :
                 ~FracLeq(Frac(Abs(r.Movimientos), 1), upper_bound))]

\* ------------------------------------------------------------------ app.py
Project(r, cols) == [c \in (cols \cap DOMAIN r) |-> r[c]]

Workbook(cols, rows) ==
    [cols |-> cols, rows |-> [i \in 1..Len(rows) |-> Project(rows[i], cols)]]

\* The expected columns with one to MaxMissing of them absent.
IncompleteCols(expected) ==
    {expected \ m : m \in {x \in SUBSET expected : Cardinality(x) \in 1..MaxMissing}}

SampleStock == <<[Item |-> "2", CurrentStock |-> 100, LeadTime |-> 7,
                  StockSeguridad |-> 20, Site |-> "A"]>>
SampleMov == <<[Item |-> "2", Site |-> "A", Fecha |-> INITIAL_BALANCE_DATE + 1,
                Movimientos |-> -30]>>
SampleCharacteristics == <<[Item |-> "2"]>>

\* Workbooks with every expected column, and any rows within the bounds; or
\* workbooks with columns missing, holding the sample rows.
Init ==
    /\ \/ /\ inventario_xlsx \in {Workbook(InventoryExpectedCols, t) :
                                    t \in SeqsUpTo(StockRows, MaxStockRows)}
          /\ consumos_xlsx \in {Workbook(ConsumptionExpectedCols, t) :
                                  t \in SeqsUpTo(MovRows, MaxMovRows)}
          /\ caracteristicas_xlsx = Workbook(CharacteristicsExpectedCols, SampleCharacteristics)
       \/ /\ inventario_xlsx \in {Workbook(c, SampleStock) :
                 c \in IncompleteCols(InventoryExpectedCols) \cup {InventoryExpectedCols}}
          /\ consumos_xlsx \in {Workbook(c, SampleMov) :
                 c \in IncompleteCols(ConsumptionExpectedCols) \cup {ConsumptionExpectedCols}}
          /\ caracteristicas_xlsx \in {Workbook(c, SampleCharacteristics) :
                 c \in IncompleteCols(CharacteristicsExpectedCols)
                           \cup {CharacteristicsExpectedCols}}
    /\ df_inventario = NoFrame
    /\ df_movimientos = NoFrame
    /\ df_caracteristicas = NoFrame
    /\ df_processed = NoFrame
    /\ df_processed_again = NoFrame
    /\ selected_item = ""
    /\ df_display = NoFrame
    /\ analysis = NoAnalysis
    /\ df_outliers_superiores_salidas = NoFrame
    /\ pc = "load_inventory"
    /\ error = NoError

\* df_inventario = load_inventory_data(INVENTARIO_PATH)
LoadInventory ==
    /\ pc = "load_inventory"
    /\ LET r == LoadTable(inventario_xlsx, "inventario.xlsx", InventoryExpectedCols)
       IN /\ df_inventario' = r.df
          /\ error' = r.error
          /\ pc' = IF r.ok THEN "load_characteristics" ELSE "stopped"
    /\ UNCHANGED <<inventario_xlsx, consumos_xlsx, caracteristicas_xlsx, df_movimientos,
                   df_caracteristicas, df_processed, df_processed_again, selected_item, df_display,
                   analysis, df_outliers_superiores_salidas>>

\* df_caracteristicas = load_characteristics_data(CARACTERISTICAS_PATH)
LoadCharacteristics ==
    /\ pc = "load_characteristics"
    /\ LET r == LoadTable(caracteristicas_xlsx, "caracteristicas.xlsx",
                          CharacteristicsExpectedCols)
       IN /\ df_caracteristicas' = r.df
          /\ error' = r.error
          /\ pc' = IF r.ok THEN "load_consumption" ELSE "stopped"
    /\ UNCHANGED <<inventario_xlsx, consumos_xlsx, caracteristicas_xlsx, df_inventario,
                   df_movimientos, df_processed, df_processed_again, selected_item, df_display,
                   analysis, df_outliers_superiores_salidas>>

\* df_movimientos = load_consumption_data(CONSUMOS_PATH)
LoadConsumption ==
    /\ pc = "load_consumption"
    /\ LET r == LoadTable(consumos_xlsx, "consumos.xlsx", ConsumptionExpectedCols)
       IN /\ df_movimientos' = r.df
          /\ error' = r.error
          /\ pc' = IF r.ok THEN "process" ELSE "stopped"
    /\ UNCHANGED <<inventario_xlsx, consumos_xlsx, caracteristicas_xlsx, df_inventario,
                   df_caracteristicas, df_processed, df_processed_again, selected_item, df_display,
                   analysis, df_outliers_superiores_salidas>>

\* df_processed = process_movements(df_inventario, df_movimientos,
\*                                  df_caracteristicas, INITIAL_BALANCE_DATE)
Process ==
    /\ pc = "process"
    /\ \E r \in {ProcessMovements(df_inventario, df_movimientos, df_caracteristicas,
                                 INITIAL_BALANCE_DATE)} :
          /\ df_inventario' = r.inv
          /\ df_movimientos' = r.mov
          /\ df_processed' = r.df
          /\ error' = r.error
          /\ pc' = IF r.error = NoError THEN "processed" ELSE "failed"
    /\ UNCHANGED <<inventario_xlsx, consumos_xlsx, caracteristicas_xlsx, df_caracteristicas,
                   df_processed_again, selected_item, df_display, analysis,
                   df_outliers_superiores_salidas>>

\* process_movements called once more with the very tables of the first call.
ProcessAgain ==
    /\ pc = "processed"
    /\ \E r \in {ProcessMovements(df_inventario, df_movimientos, df_caracteristicas,
                                 INITIAL_BALANCE_DATE)} :
          /\ df_inventario' = r.inv
          /\ df_movimientos' = r.mov
          /\ df_processed_again' = r.df
          /\ error' = r.error
          /\ pc' = IF r.error = NoError THEN "processed_again" ELSE "failed"
    /\ UNCHANGED <<inventario_xlsx, consumos_xlsx, caracteristicas_xlsx, df_caracteristicas,
                   df_processed, selected_item, df_display, analysis,
                   df_outliers_superiores_salidas>>

\* selected_item = st.selectbox(...) with an item of df_processed picked;
\* df_display = the item's rows with Fecha >= START_PLOT_DATE.
SelectItem ==
    /\ pc = "processed"
    /\ \E item \in {df_processed.rows[i].Item : i \in 1..Len(df_processed.rows)} :
          /\ selected_item' = item
          /\ df_display' = [cols |-> df_processed.cols,
                            rows |-> SelectSeq(df_processed.rows, LAMBDA r :
                                        r.Item = item /\ r.Fecha >= START_PLOT_DATE)]
          /\ pc' = IF df_display'.rows # <<>> THEN "selected" ELSE "nothing_to_display"
    /\ UNCHANGED <<inventario_xlsx, consumos_xlsx, caracteristicas_xlsx, df_inventario,
                   df_movimientos, df_caracteristicas, df_processed, df_processed_again,
                   analysis, df_outliers_superiores_salidas, error>>

\* calculate_outliers_and_mean_without_outliers(df_display)
Analyze ==
    /\ pc = "selected"
    /\ analysis' = CalculateOutliers(df_display)
    /\ pc' = "analyzed"
    /\ UNCHANGED <<inventario_xlsx, consumos_xlsx, caracteristicas_xlsx, df_inventario,
                   df_movimientos, df_caracteristicas, df_processed, df_processed_again,
                   selected_item, df_display, df_outliers_superiores_salidas, error>>

\* display_outliers_table(selected_item, df_salidas_para_outliers,
\*                        upper_bound_outlier_abs)
DisplayOutliers ==
    /\ pc = "analyzed"
    /\ df_outliers_superiores_salidas' =
           OutliersSuperioresSalidas(analysis.df_salidas, analysis.upper_bound)
    /\ pc' = "displayed"
    /\ UNCHANGED <<inventario_xlsx, consumos_xlsx, caracteristicas_xlsx, df_inventario,
                   df_movimientos, df_caracteristicas, df_processed, df_processed_again,
                   selected_item, df_display, analysis, error>>

Next ==
    \/ SelectItem
    \/ Analyze
    \/ DisplayOutliers
    \/ LoadInventory
    \/ LoadCharacteristics
    \/ LoadConsumption
    \/ Process
    \/ ProcessAgain

Spec == Init /\ [][Next]_vars

\* ------------------------------------------- workbooks with bad cells
CoercionStockRows ==
    {[Item |-> item, CurrentStock |-> c[1], LeadTime |-> c[2], StockSeguridad |-> c[3],
      Site |-> "A"] :
        item \in ItemIds,
        c \in {<<100, 7, 20>>, <<BadCell, 7, 20>>, <<100, BadCell, 20>>, <<100, 7, BadCell>>}}

CoercionMovRows ==
    [Item : ItemIds, Site : {"A"},
     Fecha : {INITIAL_BALANCE_DATE + 1, INITIAL_BALANCE_DATE + 2, BadCell},
     Movimientos : {-30, BadCell}]

CoercionCharacteristicsRows ==
    {[Item |-> "2", ADI |-> c[1], CV |-> c[2]] : c \in {<<1, 1>>, <<BadCell, 1>>, <<1, BadCell>>}}

\* Workbooks with every expected column and cells that fail coercion.
CoercionInit ==
    /\ inventario_xlsx \in {Workbook(InventoryExpectedCols, t) :
                              t \in SeqsUpTo(CoercionStockRows, MaxStockRows)}
    /\ consumos_xlsx \in {Workbook(ConsumptionExpectedCols, t) :
                            t \in SeqsUpTo(CoercionMovRows, MaxMovRows)}
    /\ caracteristicas_xlsx \in {Workbook(CharacteristicsExpectedCols, <<r>>) :
                                   r \in CoercionCharacteristicsRows}
    /\ df_inventario = NoFrame
    /\ df_movimientos = NoFrame
    /\ df_caracteristicas = NoFrame
    /\ df_processed = NoFrame
    /\ df_processed_again = NoFrame
    /\ selected_item = ""
    /\ df_display = NoFrame
    /\ analysis = NoAnalysis
    /\ df_outliers_superiores_salidas = NoFrame
    /\ pc = "load_inventory"
    /\ error = NoError

CoercionSpec == CoercionInit /\ [][Next]_vars

\* ------------------------------------- any characteristics workbook
\* Characteristics tables of at most one row, whose item may be in neither
\* of the other two tables.
CharacteristicsTables == SeqsUpTo([Item : ItemIds \cup {"B"}], 1)

CharacteristicsInit ==
    /\ inventario_xlsx \in {Workbook(InventoryExpectedCols, t) :
            t \in SeqsUpTo({r \in StockRows : r.CurrentStock = 100}, MaxStockRows)}
    /\ consumos_xlsx \in {Workbook(ConsumptionExpectedCols, t) :
            t \in SeqsUpTo({r \in MovRows : r.Site = "A" /\ r.Movimientos # 0}, MaxMovRows)}
    /\ caracteristicas_xlsx \in {Workbook(CharacteristicsExpectedCols, t) :
            t \in CharacteristicsTables}
    /\ df_inventario = NoFrame
    /\ df_movimientos = NoFrame
    /\ df_caracteristicas = NoFrame
    /\ df_processed = NoFrame
    /\ df_processed_again = NoFrame
    /\ selected_item = ""
    /\ df_display = NoFrame
    /\ analysis = NoAnalysis
    /\ df_outliers_superiores_salidas = NoFrame
    /\ pc = "load_inventory"
    /\ error = NoError

CharacteristicsSpec == CharacteristicsInit /\ [][Next]_vars

\* ------------------------------------------------ the analyzer on its own
\* One movement of item "2" on each day from START_PLOT_DATE on.
WindowMovements(qs) ==
    [i \in 1..Len(qs) |-> [Item |-> "2", Site |-> "A", Fecha |-> START_PLOT_DATE + i - 1,
                           Movimientos |-> qs[i]]]

\* The script with item "2" selected, after loading and processing a
\* movement workbook of up to MaxWindow days of any WindowQuantities.
AnalyzerInit ==
    \E qs \in SeqsUpTo(WindowQuantities, MaxWindow) \ {<<>>} :
        /\ inventario_xlsx = Workbook(InventoryExpectedCols, SampleStock)
        /\ consumos_xlsx = Workbook(ConsumptionExpectedCols, WindowMovements(qs))
        /\ caracteristicas_xlsx = Workbook(CharacteristicsExpectedCols, SampleCharacteristics)
        /\ df_caracteristicas = LoadTable(caracteristicas_xlsx, "caracteristicas.xlsx",
                                          CharacteristicsExpectedCols).df
        /\ \E r \in {ProcessMovements(
                        LoadTable(inventario_xlsx, "inventario.xlsx", InventoryExpectedCols).df,
                        LoadTable(consumos_xlsx, "consumos.xlsx", ConsumptionExpectedCols).df,
                        df_caracteristicas, INITIAL_BALANCE_DATE)} :
              /\ df_inventario = r.inv
              /\ df_movimientos = r.mov
              /\ df_processed = r.df
        /\ df_processed_again = NoFrame
        /\ selected_item = "2"
        /\ df_display = [cols |-> df_processed.cols,
                         rows |-> SelectSeq(df_processed.rows, LAMBDA r :
                                     r.Item = selected_item /\ r.Fecha >= START_PLOT_DATE)]
        /\ analysis = NoAnalysis
        /\ df_outliers_superiores_salidas = NoFrame
        /\ pc = "selected"
        /\ error = NoError

AnalyzerNext ==
    \/ Analyze
    \/ DisplayOutliers

AnalyzerSpec == AnalyzerInit /\ [][AnalyzerNext]_vars

\* ============================================================== properties
\* What the claims speak about, read off the workbooks the run was given.
Out == df_processed.rows
Processed == pc \in {"processed", "processed_again", "selected", "nothing_to_display", "analyzed",
                     "displayed"}

StockOf(item) == SelectSeq(inventario_xlsx.rows, LAMBDA r : r.Item = item)
MovementsOf(item) == SelectSeq(consumos_xlsx.rows, LAMBDA r : r.Item = item)
MovementsOn(item, d) == SelectSeq(consumos_xlsx.rows, LAMBDA r : r.Item = item /\ r.Fecha = d)

StockItems == {inventario_xlsx.rows[i].Item : i \in 1..Len(inventario_xlsx.rows)}
MovementItems == {consumos_xlsx.rows[i].Item : i \in 1..Len(consumos_xlsx.rows)}
OutItems == {Out[i].Item : i \in 1..Len(Out)}
OutDates(item) == {Out[i].Fecha : i \in {j \in 1..Len(Out) : Out[j].Item = item}}
OutRowsOf(item) == SelectSeq(Out, LAMBDA r : r.Item = item)

\* initial_balance of the spec: current_stock + safety_stock, 0 when unknown.
InitialBalanceOf(item) ==
    IF StockOf(item) = <<>> THEN 0
    ELSE StockOf(item)[1].CurrentStock + StockOf(item)[1].StockSeguridad

\* net_movement[d]: every quantity of the item dated d, over all sites.
NetMovement(item, d) ==
    SumSeq([i \in 1..Len(MovementsOn(item, d)) |-> MovementsOn(item, d)[i].Movimientos])

LastMovementDate(item) ==
    MaxOf({MovementsOf(item)[i].Fecha : i \in 1..Len(MovementsOf(item))})

\* C1: after process_movements, every row dated initial_balance_date has
\* Saldo = the item's initial balance (CurrentStock + StockSeguridad, or 0
\* for an item only in the movement log), whatever moves on that date.
C1_AnchorBalance ==
    Processed =>
        \A i \in 1..Len(Out) :
            Out[i].Fecha = INITIAL_BALANCE_DATE => Out[i].Saldo = InitialBalanceOf(Out[i].Item)

\* C2: for every item and every day d after the initial-balance date,
\* balance[d] = balance[d-1] + net_movement[d], for any movement log.
C2_BalanceRecurrence ==
    Processed =>
        \A i, j \in 1..Len(Out) :
            (Out[i].Item = Out[j].Item /\ Out[j].Fecha = Out[i].Fecha + 1)
                => Out[j].Saldo = Out[i].Saldo + NetMovement(Out[j].Item, Out[j].Fecha)

\* C3: the dates of an item's rows are exactly the days from
\* initial_balance_date to its last movement date (the anchor alone for an
\* item without movements), and a day without movements has a zero row.
C3_NoGaps ==
    Processed =>
        \A item \in OutItems :
            /\ OutDates(item) =
                   IF MovementsOf(item) = <<>> THEN {INITIAL_BALANCE_DATE}
                   ELSE INITIAL_BALANCE_DATE..LastMovementDate(item)
            /\ \A i \in 1..Len(Out) :
                   (Out[i].Item = item /\ MovementsOn(item, Out[i].Fecha) = <<>>)
                       => (Out[i].Entradas = 0 /\ Out[i].Salidas = 0 /\ Out[i].Movimientos = 0)

\* C3 witness: an item moved two days after the anchor and not the day
\* between has its zero row for that day.
C3_Witness ==
    /\ Processed
    /\ \E item \in OutItems :
          /\ MovementsOn(item, INITIAL_BALANCE_DATE + 2) # <<>>
          /\ MovementsOn(item, INITIAL_BALANCE_DATE + 1) = <<>>
          /\ \E i \in 1..Len(Out) :
                Out[i].Item = item /\ Out[i].Fecha = INITIAL_BALANCE_DATE + 1
                    /\ Out[i].Movimientos = 0

\* C4: exactly one row per (item, date); the movements of several sites on
\* one day are one row with the sums over the sites.
C4_OneRowPerItemDate ==
    Processed =>
        /\ \A i, j \in 1..Len(Out) :
               (Out[i].Item = Out[j].Item /\ Out[i].Fecha = Out[j].Fecha) => i = j
        /\ \A i \in 1..Len(Out) :
               LET day == MovementsOn(Out[i].Item, Out[i].Fecha)
                   q(n) == day[n].Movimientos
               IN /\ Out[i].Entradas = SumSeq([n \in 1..Len(day) |-> IF q(n) > 0 THEN q(n) ELSE 0])
                  /\ Out[i].Salidas = SumSeq([n \in 1..Len(day) |-> IF q(n) < 0 THEN q(n) ELSE 0])

\* The stock workbook lists an Item twice.
HasDuplicateStock ==
    \E i, j \in 1..Len(inventario_xlsx.rows) :
        i # j /\ inventario_xlsx.rows[i].Item = inventario_xlsx.rows[j].Item

\* process_movements has been called.
CalledProcess == pc \notin {"load_inventory", "load_characteristics", "load_consumption",
                            "process", "stopped"}

\* C5: a stock snapshot with a repeated Item makes process_movements fail
\* before any item is processed: no rows are returned, for any item.
C5_DuplicateStockRejected ==
    (CalledProcess /\ HasDuplicateStock) =>
        /\ pc = "failed"
        /\ error.kind = "ValueError" /\ error.table = "df_inventario"
        /\ df_processed = NoFrame

\* C5 witness: the call was made on a snapshot whose two rows of one item
\* differ in stock, and it failed.
C5_Witness ==
    /\ pc = "failed"
    /\ \E i, j \in 1..Len(inventario_xlsx.rows) :
          /\ inventario_xlsx.rows[i].Item = inventario_xlsx.rows[j].Item
          /\ inventario_xlsx.rows[i].CurrentStock # inventario_xlsx.rows[j].CurrentStock
    /\ consumos_xlsx.rows # <<>>

\* The columns the spec requires of each workbook.
RequiredCols(table) ==
    IF table = "inventario.xlsx" THEN {"Item", "CurrentStock", "LeadTime", "StockSeguridad"}
    ELSE IF table = "caracteristicas.xlsx" THEN CharacteristicsExpectedCols
    ELSE ConsumptionExpectedCols

WorkbookOf(table) ==
    IF table = "inventario.xlsx" THEN inventario_xlsx
    ELSE IF table = "caracteristicas.xlsx" THEN caracteristicas_xlsx
    ELSE consumos_xlsx

FrameOf(table) ==
    IF table = "inventario.xlsx" THEN df_inventario
    ELSE IF table = "caracteristicas.xlsx" THEN df_caracteristicas
    ELSE df_movimientos

LoadOrder == <<"inventario.xlsx", "caracteristicas.xlsx", "consumos.xlsx">>
LoadStages == <<"load_inventory", "load_characteristics", "load_consumption">>

RequiredMissing(table) == RequiredCols(table) \ WorkbookOf(table).cols

\* The script is past the load of the k-th workbook.
PastLoad(k) == \A n \in 1..k : pc # LoadStages[n]

\* C6: a required column absent from a workbook ends the run in a format
\* error, with nothing of that table processed and nothing reconstructed;
\* the error names the workbook and its missing columns.  The workbooks
\* are loaded in the order stock, characteristics, movements, and the run
\* stops at the first one at fault, which is the one named.
C6_MissingColumnRejected ==
    \A k \in 1..3 :
        (PastLoad(k) /\ RequiredMissing(LoadOrder[k]) # {})
        => /\ pc = "stopped"
           /\ error.kind = "ValueError"
           /\ FrameOf(LoadOrder[k]) = NoFrame
           /\ df_processed = NoFrame
           /\ (\A n \in 1..(k - 1) : FrameOf(LoadOrder[n]) # NoFrame)
                  => /\ error.table = LoadOrder[k]
                     /\ RequiredMissing(LoadOrder[k]) \subseteq error.missing

\* C6 witness: the movement workbook, loaded last, lacks a column and the
\* run stopped on it.
C6_Witness ==
    /\ pc = "stopped"
    /\ RequiredMissing("consumos.xlsx") # {}
    /\ error.table = "consumos.xlsx"
    /\ df_inventario # NoFrame

\* C7: every item of the stock snapshot or of the movement log has its rows
\* on exactly the days from initial_balance_date to max(last movement date,
\* initial_balance_date); an item with no movement after the anchor has the
\* single anchor row, with zero flows and balance = initial_balance.
C7_EveryItemHasAnchorRow ==
    Processed =>
        \A item \in StockItems \cup MovementItems :
            /\ OutDates(item) =
                   IF MovementsOf(item) = <<>>
                          \/ LastMovementDate(item) < INITIAL_BALANCE_DATE
                   THEN {INITIAL_BALANCE_DATE}
                   ELSE INITIAL_BALANCE_DATE..LastMovementDate(item)
            /\ (MovementsOf(item) = <<>> \/ LastMovementDate(item) < INITIAL_BALANCE_DATE)
                   => OutRowsOf(item) =
                          <<[Item |-> item, Fecha |-> INITIAL_BALANCE_DATE,
                             Site |-> OutRowsOf(item)[1].Site,
                             Movimientos |-> 0, Entradas |-> 0, Salidas |-> 0,
                             Saldo |-> InitialBalanceOf(item)]>>

\* C8: a second call on the very tables of the first call returns the same
\* rows in the same order.
C8_SecondCallSameOutput ==
    pc = "processed_again" => df_processed_again = df_processed

\* C8 witness: the second call returned, on a stock snapshot and a movement
\* log that share an item.
C8_Witness ==
    /\ pc = "processed_again"
    /\ Len(df_processed_again.rows) >= 3
    /\ StockItems \cap MovementItems # {}

\* C9: process_movements leaves the stock and movement tables it is given
\* with the same columns and cells, and the analyzer leaves its window so.
C9_ArgumentsUnchanged ==
    [][/\ pc \in {"process", "processed"}
           => (df_inventario' = df_inventario /\ df_movimientos' = df_movimientos)
       /\ pc = "selected" => df_display' = df_display]_vars

\* C10: the returned rows are in ascending Item order and, within an item,
\* in ascending Fecha order, whatever the order of the input rows.
C10_SortedByItemThenFecha ==
    Processed =>
        \A i \in 1..(Len(Out) - 1) :
            \/ StrLess(Out[i].Item, Out[i + 1].Item)
            \/ (Out[i].Item = Out[i + 1].Item /\ Out[i].Fecha <= Out[i + 1].Fecha)

\* C10 witness: two items in the output, met by the call in descending order
\* (the stock snapshot lists "2" before "10").
C10_Witness ==
    /\ Processed
    /\ OutItems = {"10", "2"}
    /\ Len(inventario_xlsx.rows) = 2
    /\ inventario_xlsx.rows[1].Item = "2" /\ inventario_xlsx.rows[2].Item = "10"
    /\ \E i \in 1..Len(Out) : Out[i].Fecha > INITIAL_BALANCE_DATE

\* ------------------------------------------------- the analyzer's claims
\* The window's outflow rows and their absolute values, read off df_display.
OutflowRows == SelectSeq(df_display.rows, LAMBDA r : r.Movimientos < 0)
Outflows == [i \in 1..Len(OutflowRows) |-> -OutflowRows[i].Movimientos]
Analyzed == pc \in {"analyzed", "displayed"}

Distinct(s) == Cardinality({s[i] : i \in 1..Len(s)})

\* The k-th smallest value of a sample.
KthSmallest(s, k) ==
    CHOOSE v \in {s[i] : i \in 1..Len(s)} :
        /\ Cardinality({i \in 1..Len(s) : s[i] < v}) < k
        /\ k <= Cardinality({i \in 1..Len(s) : s[i] <= v})

\* Four times the (25 * k)-th percentile of a sample, by linear
\* interpolation between the closest ranks: the rank is 1 + (n - 1) * k / 4.
Percentile4(s, k) ==
    LET quarters == (Len(s) - 1) * k
        lo == 1 + (quarters \div 4)
        part == quarters % 4
    IN IF part = 0 THEN 4 * KthSmallest(s, lo)
       ELSE (4 - part) * KthSmallest(s, lo) + part * KthSmallest(s, lo + 1)

Iqr4(s) == Percentile4(s, 3) - Percentile4(s, 1)

\* Eight times Q3 + 1.5 * IQR.
UpperBound8(s) == 2 * Percentile4(s, 3) + 3 * Iqr4(s)

\* a = n as numbers, a <= b as numbers.
IsNumber(a, n) == a.num = n * a.den
Leq(a, b) == a.num * b.den <= b.num * a.den

\* a is the arithmetic mean of the sample s.
IsMeanOf(a, s) == a.num * Len(s) = SumSeq(s) * a.den

ScenarioC == /\ Len(Outflows) = 5
             /\ KthSmallest(Outflows, 1) = 5
             /\ KthSmallest(Outflows, 4) = 5
             /\ KthSmallest(Outflows, 5) = 100

\* C11: with at least two distinct absolute outflows, upper_bound is
\* Q3 + 1.5 * (Q3 - Q1) for the interpolated quartiles of the absolute
\* outflows, and the mean is the mean of the absolute outflows that are
\* <= upper_bound; [5,5,5,5,100] gives Q1 = Q3 = 5, upper_bound 5, mean 5.
C11_QuartileBoundAndMean ==
    (Analyzed /\ Distinct(Outflows) >= 2) =>
        LET kept == SelectSeq(Outflows, LAMBDA x : 8 * x <= UpperBound8(Outflows))
        IN /\ 8 * analysis.upper_bound.num = UpperBound8(Outflows) * analysis.upper_bound.den
           /\ IF kept = <<>> THEN IsNumber(analysis.mean, 0)
              ELSE IsMeanOf(analysis.mean, kept)
           /\ ScenarioC =>
                  /\ Percentile4(Outflows, 1) = 20 /\ Percentile4(Outflows, 3) = 20
                  /\ IsNumber(analysis.upper_bound, 5) /\ IsNumber(analysis.mean, 5)

\* C11 witness: the analyzer has run on the outflows 5, 5, 5, 5, 100.
C11_Witness ==
    /\ pc = "analyzed"
    /\ ScenarioC
    /\ analysis.upper_bound = [num |-> 5, den |-> 1]

\* C12: with a single distinct absolute outflow, upper_bound is the largest
\* absolute outflow and the mean is the mean of them all; with no outflow
\* row, both are 0 and no outflow rows are returned.
C12_DegenerateWindows ==
    Analyzed =>
        /\ Distinct(Outflows) = 1 =>
               /\ \A i \in 1..Len(Outflows) : Leq([num |-> Outflows[i], den |-> 1], analysis.upper_bound)
               /\ \E i \in 1..Len(Outflows) : IsNumber(analysis.upper_bound, Outflows[i])
               /\ IsMeanOf(analysis.mean, Outflows)
        /\ Outflows = <<>> =>
               /\ IsNumber(analysis.upper_bound, 0)
               /\ IsNumber(analysis.mean, 0)
               /\ analysis.df_salidas.rows = <<>>

\* C12 witness: the analyzer has run on a window with one outflow value on
\* two days and a day that is no outflow.
C12_Witness ==
    /\ pc = "analyzed"
    /\ Len(Outflows) >= 2 /\ Distinct(Outflows) = 1
    /\ Len(df_display.rows) > Len(Outflows)

\* C13: the outflow rows are the rows with Movimientos < 0, and the rows
\* reported as outliers are exactly those of them whose absolute value is
\* strictly greater than upper_bound: no row with Movimientos >= 0, and no
\* row at the bound.
C13_ReportedOutliers ==
    /\ Analyzed => analysis.df_salidas.rows = OutflowRows
    /\ pc = "displayed" =>
          /\ df_outliers_superiores_salidas.rows =
                 SelectSeq(df_display.rows, LAMBDA r :
                     /\ r.Movimientos < 0
                     /\ (-r.Movimientos) * analysis.upper_bound.den > analysis.upper_bound.num)
          /\ \A i \in 1..Len(df_outliers_superiores_salidas.rows) :
                 /\ df_outliers_superiores_salidas.rows[i].Movimientos < 0
                 /\ ~IsNumber(analysis.upper_bound,
                              -df_outliers_superiores_salidas.rows[i].Movimientos)

\* C13 witness: a window with a reported row and an outflow row at the
\* bound that is not reported.
C13_Witness ==
    /\ pc = "displayed"
    /\ df_outliers_superiores_salidas.rows # <<>>
    /\ \E i \in 1..Len(Outflows) : IsNumber(analysis.upper_bound, Outflows[i])
    /\ Len(df_outliers_superiores_salidas.rows) < Len(Outflows)

ComparisonSamples == SeqsUpTo({1, 5, 100}, 4) \ {<<>>}

Comparison ==
    {[q3 |-> Percentile4(b, 3), iqr |-> Iqr4(b),
      upper_bound |-> CalculateOutliers(
          [cols |-> ProcessedCols,
           rows |-> [i \in 1..Len(b) |-> [Movimientos |-> -b[i]]]]).upper_bound] :
     b \in ComparisonSamples}

\* C15: of two non-empty outflow samples with the same Q3, the one with the
\* smaller or equal IQR has the smaller or equal upper bound; a sample of a
\* single distinct value counts with IQR = 0.
C15_BoundMonotoneInSpread ==
    (Analyzed /\ Outflows # <<>>) =>
        \A q3 \in {Percentile4(Outflows, 3)}, iqr \in {Iqr4(Outflows)} :
            \A b \in Comparison :
                b.q3 = q3 =>
                    /\ iqr <= b.iqr => Leq(analysis.upper_bound, b.upper_bound)
                    /\ b.iqr <= iqr => Leq(b.upper_bound, analysis.upper_bound)

\* C15 witness: the analysed window has a single distinct outflow value and
\* a comparison sample has the same Q3 with a positive IQR.
C15_Witness ==
    /\ pc = "analyzed"
    /\ Outflows # <<>> /\ Distinct(Outflows) = 1
    /\ \E b \in Comparison :
          /\ b.q3 = Percentile4(Outflows, 3)
          /\ b.iqr > 0

\* ------------------------------------------------------ the loaders' claims
\* The repair the spec states for a numeric cell.
Repaired(x) == IF x = BadCell THEN 0 ELSE x

\* The movement workbook's rows whose Fecha is a date.
DatedMovements == SelectSeq(consumos_xlsx.rows, LAMBDA r : r.Fecha # BadCell)
DatedMovementsOf(item) == SelectSeq(DatedMovements, LAMBDA r : r.Item = item)

\* C16: with every column present, a cell that fails coercion stops
\* nothing: each stock and characteristics row is kept with its bad numeric
\* cells at 0, each movement row with a date is kept (a bad quantity at 0)
\* and the rows without one are dropped; the reconstruction then runs on
\* the repaired tables, failing only on a repeated stock Item.
C16_CoercionRepairs ==
    /\ pc # "stopped"
    /\ pc = "failed" => HasDuplicateStock
    /\ PastLoad(1) =>
          /\ Len(df_inventario.rows) = Len(inventario_xlsx.rows)
          /\ \A i \in 1..Len(inventario_xlsx.rows) :
                /\ df_inventario.rows[i].Item = inventario_xlsx.rows[i].Item
                /\ \A c \in {"CurrentStock", "LeadTime", "StockSeguridad"} :
                      df_inventario.rows[i][c] = Repaired(inventario_xlsx.rows[i][c])
    /\ PastLoad(2) =>
          /\ Len(df_caracteristicas.rows) = Len(caracteristicas_xlsx.rows)
          /\ \A i \in 1..Len(caracteristicas_xlsx.rows) :
                \A c \in {"ADI", "CV"} :
                    df_caracteristicas.rows[i][c] = Repaired(caracteristicas_xlsx.rows[i][c])
    /\ PastLoad(3) =>
          /\ Len(df_movimientos.rows) = Len(DatedMovements)
          /\ \A i \in 1..Len(DatedMovements) :
                /\ df_movimientos.rows[i].Item = DatedMovements[i].Item
                /\ df_movimientos.rows[i].Fecha = DatedMovements[i].Fecha
                /\ df_movimientos.rows[i].Movimientos = Repaired(DatedMovements[i].Movimientos)
    /\ Processed =>
          \A item \in StockItems \cup {DatedMovements[i].Item : i \in 1..Len(DatedMovements)} :
              /\ OutDates(item) =
                     INITIAL_BALANCE_DATE..MaxOf({INITIAL_BALANCE_DATE} \cup
                         {DatedMovementsOf(item)[i].Fecha : i \in 1..Len(DatedMovementsOf(item))})
              /\ \A i \in 1..Len(Out) :
                     (Out[i].Item = item /\ Out[i].Fecha = INITIAL_BALANCE_DATE) =>
                         Out[i].Saldo =
                             IF StockOf(item) = <<>> THEN 0
                             ELSE Repaired(StockOf(item)[1].CurrentStock)
                                      + Repaired(StockOf(item)[1].StockSeguridad)

\* C16 witness: the reconstruction has run on a stock workbook with a bad
\* CurrentStock cell and a movement workbook with one undated row and one
\* dated row whose quantity is bad.
C16_Witness ==
    /\ Processed
    /\ \E i \in 1..Len(inventario_xlsx.rows) : inventario_xlsx.rows[i].CurrentStock = BadCell
    /\ \E i \in 1..Len(consumos_xlsx.rows) : consumos_xlsx.rows[i].Fecha = BadCell
    /\ \E i \in 1..Len(DatedMovements) : DatedMovements[i].Movimientos = BadCell
    /\ Len(Out) >= 2

\* C17: a stock workbook with Item, CurrentStock, LeadTime and
\* StockSeguridad but no Site column is loaded, its items get a default
\* site, and the balance series is produced: no format error.
C17_SiteOptional ==
    (PastLoad(1) /\ inventario_xlsx.cols = InventoryExpectedCols \ {"Site"}) =>
        /\ pc # "stopped"
        /\ error.kind = "none"
        /\ df_inventario.rows = inventario_xlsx.rows
        /\ Processed =>
               \A item \in StockItems :
                   \E i \in 1..Len(Out) :
                       /\ Out[i].Item = item
                       /\ Out[i].Fecha = INITIAL_BALANCE_DATE
                       /\ Out[i].Saldo = InitialBalanceOf(item)

AggregatedInto(row) ==
    SelectSeq(consumos_xlsx.rows, LAMBDA m :
        m.Item = row.Item /\ m.Fecha = row.Fecha /\ m.Site = row.Site)

\* C19: in every output row Entradas is the sum of the positive and Salidas
\* the sum of the negative quantities of the movements aggregated into it,
\* so Entradas >= 0, Salidas <= 0 and Movimientos = Entradas + Salidas; a
\* movement of quantity 0 adds nothing to either, and its date is still a
\* date of the item's series.
C19_InflowOutflowSplit ==
    Processed =>
        /\ \A i \in 1..Len(Out) :
               LET agg == AggregatedInto(Out[i])
               IN /\ Out[i].Entradas =
                         SumSeq([n \in 1..Len(agg) |->
                                    IF agg[n].Movimientos > 0 THEN agg[n].Movimientos ELSE 0])
                  /\ Out[i].Salidas =
                         SumSeq([n \in 1..Len(agg) |->
                                    IF agg[n].Movimientos < 0 THEN agg[n].Movimientos ELSE 0])
                  /\ Out[i].Entradas >= 0
                  /\ Out[i].Salidas <= 0
                  /\ Out[i].Movimientos = Out[i].Entradas + Out[i].Salidas
        /\ \A n \in 1..Len(consumos_xlsx.rows) :
               (/\ consumos_xlsx.rows[n].Movimientos = 0
                /\ consumos_xlsx.rows[n].Fecha >= INITIAL_BALANCE_DATE)
                   => consumos_xlsx.rows[n].Fecha \in OutDates(consumos_xlsx.rows[n].Item)

\* C19 witness: an output row that aggregates an inflow and an outflow.
C19_Witness ==
    /\ Processed
    /\ \E i \in 1..Len(Out) : Out[i].Entradas > 0 /\ Out[i].Salidas < 0

\* The item's movements dated after the initial-balance date and on or
\* before d.
MovementsUpTo(item, d) ==
    SelectSeq(consumos_xlsx.rows, LAMBDA m :
        m.Item = item /\ m.Fecha > INITIAL_BALANCE_DATE /\ m.Fecha <= d)

\* C20: every row's balance is the item's initial balance plus the
\* quantities of all of its movements dated after initial_balance_date and
\* on or before the row's date, each counted once, also when several
\* movements or sites share a day.
C20_Conservation ==
    Processed =>
        \A i \in 1..Len(Out) :
            Out[i].Saldo =
                InitialBalanceOf(Out[i].Item)
                    + SumSeq([n \in 1..Len(MovementsUpTo(Out[i].Item, Out[i].Fecha)) |->
                                 MovementsUpTo(Out[i].Item, Out[i].Fecha)[n].Movimientos])

\* C21: when the window has a row with Movimientos < 0, the smallest
\* absolute outflow is <= upper_bound, so the outflows averaged are never
\* none: the mean is that of a non-empty set and strictly positive, and not
\* every outflow row is reported as an outlier.
C21_SomeOutflowWithinBound ==
    (Analyzed /\ Outflows # <<>>) =>
        LET kept == SelectSeq(Outflows, LAMBDA x :
                        Leq([num |-> x, den |-> 1], analysis.upper_bound))
        IN /\ Leq([num |-> KthSmallest(Outflows, 1), den |-> 1], analysis.upper_bound)
           /\ kept # <<>>
           /\ IsMeanOf(analysis.mean, kept)
           /\ analysis.mean.num > 0 /\ analysis.mean.den > 0
           /\ pc = "displayed" =>
                  Len(df_outliers_superiores_salidas.rows) < Len(Outflows)

\* C21 witness: the outliers of a window with several distinct outflows
\* have been reported, some outflow being above the bound and the smallest
\* below it.
C21_Witness ==
    /\ pc = "displayed"
    /\ Distinct(Outflows) >= 3
    /\ df_outliers_superiores_salidas.rows # <<>>
    /\ ~IsNumber(analysis.upper_bound, KthSmallest(Outflows, 1))
    /\ Leq([num |-> KthSmallest(Outflows, 1), den |-> 1], analysis.upper_bound)

====
